---- MODULE Spec2Model ----
(***************************************************************************)
(* PRISM: colour-stratified point cloud sampling (PRISM.py).               *)
(*                                                                         *)
(* Index arrays (shuffled_indices, sort_order, ...) hold numpy's 0-based   *)
(* indices; they are stored in TLA+ sequences, so element i of an array a  *)
(* is a[i + 1].                                                            *)
(*                                                                         *)
(* A colour component is a multiple of 1/ColorDen in [0, 1]; a             *)
(* quantization step is a fraction <<numerator, denominator>>.             *)
(***************************************************************************)
EXTENDS Integers, Sequences, FiniteSets, TLC

\* ---------------------------------------------------------------- bounds
MaxN == 3          \* largest number of points in an input cloud
MaxK == 2          \* largest bin capacity passed as --k
MaxSeed == 6       \* seeds 1..MaxSeed of the process-wide generator
MaxCalls == 2      \* calls of prism_sampling on one cloud by a repeating caller
MaxFiles == 3      \* .ply files found by the directory sweep

ColorDen == 2      \* colour components are 0, 1/2, 1

Palette == { <<2, 0, 0>>, <<1, 0, 0>> }   \* red and half-bright red
QSteps == { <<0 - 1, 1>>, <<0, 1>>, <<1, 1>>, <<255, 1>> }
Builds == { "x86_64", "aarch64" }

NoCloud == 0
Int32Min == (0 - 2147483647) - 1
Int32Max == 2147483647

VARIABLES
  heap,                    \* id -> live PointCloud (points, colors, normals)
  pcd,                     \* id of the cloud passed to prism_sampling
  k, quantization, use_chromaticity,   \* the parsed arguments
  np_random,               \* state of the process-wide numpy generator
  colors_quant,            \* locals of the last call of prism_sampling
  shuffled_indices,
  sort_order,
  final_original_indices,
  ret,                     \* id returned by the last call, NoCloud before
  raised,                  \* exception raised by the last call ("none")
  pcd_before,              \* value of the input cloud when the call began
  selection,               \* set of input indices the last call selected
  calls_left,              \* calls of prism_sampling the caller still makes
  ply_files,               \* the directory sweep: files found by glob
  file_pos,                \* position of the for loop over ply_files
  written,                 \* positions whose output was written
  log,                     \* lines printed so far
  main_pc                  \* "loop", "done" or "aborted"

sampler_vars == << heap, pcd, k, quantization, use_chromaticity, np_random,
                   colors_quant, shuffled_indices, sort_order,
                   final_original_indices, ret, raised, pcd_before,
                   selection, calls_left >>
batch_vars == << ply_files, file_pos, written, log, main_pc >>
vars == << heap, pcd, k, quantization, use_chromaticity, np_random,
           colors_quant, shuffled_indices, sort_order,
           final_original_indices, ret, raised, pcd_before,
           selection, calls_left, ply_files, file_pos, written, log, main_pc >>

\* ------------------------------------------------------------- helpers
Range(s) == { s[i] : i \in 1..Len(s) }

Min(a, b) == IF a < b THEN a ELSE b

\* numpy's round(): n/d rounded to the nearest integer, ties to even
RoundHalfEven(n, d) ==
  LET nn == IF d < 0 THEN 0 - n ELSE n
      dd == IF d < 0 THEN 0 - d ELSE d
      fl == nn \div dd
      r  == nn - dd * fl
  IN  IF r < dd - r THEN fl
      ELSE IF r > dd - r THEN fl + 1
      ELSE IF fl % 2 = 0 THEN fl ELSE fl + 1

\* astype(np.int32) of a non-finite float: what the build's cast produces
CastNonFinite(kind, b) ==
  IF b = "x86_64" THEN Int32Min
  ELSE IF kind = "inf" THEN Int32Max ELSE 0

\* lines 19-27: one component of colors_quant.  c is the component, s the
\* sum of the colour's components (both in units of 1/ColorDen).
QuantComponent(c, s, q, chroma, b) ==
  IF q[1] = 0
    THEN CastNonFinite(IF c = 0 THEN "nan" ELSE "inf", b)
    ELSE IF chroma
      THEN RoundHalfEven(c * 1000000 * 255 * q[2],
                         (s * 1000000 + ColorDen) * q[1])
      ELSE RoundHalfEven(c * 255 * q[2], ColorDen * q[1])

QuantColor(col, q, chroma, b) ==
  [ j \in 1..3 |-> QuantComponent(col[j], col[1] + col[2] + col[3], q, chroma, b) ]

Quantize(colors, q, chroma, b) ==
  [ i \in 1..Len(colors) |-> QuantColor(colors[i], q, chroma, b) ]

\* lines 30-31: the int32 triple viewed as 12 raw bytes (little endian)
Int32Bytes(x) ==
  << x % 256, (x \div 256) % 256, (x \div 65536) % 256, (x \div 16777216) % 256 >>

Pack(key) == Int32Bytes(key[1]) \o Int32Bytes(key[2]) \o Int32Bytes(key[3])

\* comparison of two void scalars: byte by byte, as unsigned chars
RECURSIVE BytesLess(_, _)
BytesLess(a, b) ==
  IF Len(a) = 0 THEN FALSE
  ELSE IF Head(a) # Head(b) THEN Head(a) < Head(b)
  ELSE BytesLess(Tail(a), Tail(b))

\* --------------------------------------------------- the random generator
\* np.random is one generator shared by the whole process.  Its state is
\* abstracted to a residue of a multiplicative congruential generator:
\* a draw reads the state and advances it.
rk_next(s) == (3 * s) % 31

\* random_interval(state, max): a value in 0..max read from the state
rk_interval(s, max) == s % (max + 1)

\* the swap with its second store lost
SwapLossy(x, i, j) == [ x EXCEPT ![i + 1] = x[j + 1] ]

Swap(x, i, j) == [ x EXCEPT ![i + 1] = x[j + 1], ![j + 1] = x[i + 1] ]

\* np.random.shuffle(x): for i in reversed(range(1, n)): swap x[i], x[j]
RECURSIVE ShuffleFrom(_, _, _)
ShuffleFrom(x, i, s) ==
  IF i < 1 THEN [ arr |-> x, state |-> s ]
  ELSE ShuffleFrom(Swap(x, i, rk_interval(s, i)), i - 1, rk_next(s))

\* lines 35-36: np.arange(N) shuffled in place
Arange(n) == [ i \in 1..n |-> i - 1 ]

Shuffle(n, s) == ShuffleFrom(Arange(n), n - 1, s)

\* ------------------------------------------------------ grouping by sort
\* a[idx]: numpy fancy indexing, a copy of the selected elements
Take(a, idx) == [ i \in 1..Len(idx) |-> a[idx[i] + 1] ]

Perms(n) == { p \in [1..n -> 0..(n - 1)] :
                \A i, j \in 1..n : i # j => p[i] # p[j] }

\* line 42: np.argsort with the default kind, which is not stable: any
\* permutation that puts the keys in non-decreasing order is a result.
AllPerms == [ n \in 0..MaxN |-> Perms(n) ]

ArgSorts(keys) ==
  LET packed == [ i \in 1..Len(keys) |-> Pack(keys[i]) ]
  IN  { p \in AllPerms[Len(keys)] :
          \A i \in 1..(Len(keys) - 1) :
            ~ BytesLess(packed[p[i + 1] + 1], packed[p[i] + 1]) }

\* line 46: np.unique(..., return_index=True, return_counts=True) of an
\* array that is already sorted: the first position of every run.
RECURSIVE UniqueIndicesFrom(_, _)
UniqueIndicesFrom(sorted, i) ==
  IF i >= Len(sorted) THEN << >>
  ELSE IF i = 0 \/ sorted[i + 1] # sorted[i]
    THEN << i >> \o UniqueIndicesFrom(sorted, i + 1)
    ELSE UniqueIndicesFrom(sorted, i + 1)

UniqueIndices(sorted) == UniqueIndicesFrom(sorted, 0)

UniqueCounts(sorted) ==
  LET ui == UniqueIndices(sorted)
  IN  [ g \in 1..Len(ui) |->
          (IF g = Len(ui) THEN Len(sorted) ELSE ui[g + 1]) - ui[g] ]

\* np.repeat(values, counts)
RECURSIVE Repeat(_, _)
Repeat(values, counts) ==
  IF Len(values) = 0 THEN << >>
  ELSE [ i \in 1..Head(counts) |-> Head(values) ]
         \o Repeat(Tail(values), Tail(counts))

\* lines 49-53
IntraGroupCounter(sorted) ==
  LET group_starts_expanded == Repeat(UniqueIndices(sorted), UniqueCounts(sorted))
  IN  [ i \in 1..Len(sorted) |-> (i - 1) - group_starts_expanded[i] ]

\* the cap taken one too far: intra_group_counter <= k
KeepMaskInclusive(counter, kk) == [ i \in 1..Len(counter) |-> counter[i] <= kk ]

\* line 56: keep_mask_in_sorted
KeepMask(counter, kk) == [ i \in 1..Len(counter) |-> counter[i] < kk ]

\* a[mask]: the elements of a whose mask entry is true, in order
RECURSIVE Compress(_, _)
Compress(a, mask) ==
  IF Len(a) = 0 THEN << >>
  ELSE (IF Head(mask) THEN << Head(a) >> ELSE << >>)
         \o Compress(Tail(a), Tail(mask))

\* the mask applied to the shuffled order instead of the sorted one
FinalIndicesUnsorted(shuffled, order, mask) == Compress(shuffled, mask)

\* line 59: shuffled_indices[sort_order[keep_mask_in_sorted]]
FinalIndices(shuffled, order, mask) == Take(shuffled, Compress(order, mask))

\* ------------------------------------------------------------ the clouds
HasNormals(c) == Len(c.points) > 0 /\ Len(c.normals) = Len(c.points)

\* the normals sliced to the output's length instead of gathered
GatherSlicedNormals(c, idx) ==
  [ points  |-> Take(c.points, idx),
    colors  |-> Take(c.colors, idx),
    normals |-> IF HasNormals(c) THEN SubSeq(c.normals, 1, Len(idx)) ELSE << >> ]

\* lines 62-68: the gathered attributes of the new cloud
Gather(c, idx) ==
  [ points  |-> Take(c.points, idx),
    colors  |-> Take(c.colors, idx),
    normals |-> IF HasNormals(c) THEN Take(c.normals, idx) ELSE << >> ]

\* the result built in the input object itself
NewIdReuse(h, in) == in

\* line 62: o3d.geometry.PointCloud() is a new object, distinct from every
\* live one (in is the input cloud)
NewId(h, in) == CHOOSE i \in 1..(Cardinality(DOMAIN h) + 1) : i \notin DOMAIN h

\* the early return never taken
IsEmptyNever(c) == FALSE

\* line 15
IsEmpty(c) == Len(c.points) = 0

\* the clouds a loader can hand over: point i has its own position and
\* normal, and a colour of the palette
CloudOf(cs, hn) ==
  [ points  |-> [ i \in 1..Len(cs) |-> 100 + i ],
    colors  |-> cs,
    normals |-> IF hn THEN [ i \in 1..Len(cs) |-> 200 + i ] ELSE << >> ]

InputClouds ==
  { CloudOf(cs, hn) :
      cs \in UNION { [1..n -> Palette] : n \in 0..MaxN }, hn \in BOOLEAN }

\* --------------------------------------------------------- prism_sampling
\* lines 43-68 on a non-empty cloud c: cq is colors_quant, sh the shuffle
\* (array and generator state after it) and so the result of argsort
SamplingRun(c, kk, cq, sh, so) ==
  LET sorted_colors == Take(Take(cq, sh.arr), so)
      keep_mask_in_sorted == KeepMask(IntraGroupCounter(sorted_colors), kk)
  IN  [ colors_quant |-> cq,
        shuffled_indices |-> sh.arr,
        sort_order |-> so,
        final_original_indices |-> FinalIndices(sh.arr, so, keep_mask_in_sorted),
        state |-> sh.state ]

\* the builds whose casts can differ for step q: the cast of a finite value
\* in range is defined, so only a zero step tells the builds apart
CastBuilds(q) == IF q[1] = 0 THEN Builds ELSE { "x86_64" }

\* the results argsort can give on the shuffled packed colours (lines 39-42)
SortOrdersOf(cq, sh) == ArgSorts(Take(cq, sh.arr))

\* lines 15-16: an empty cloud is returned as it is
PrismSamplingEmpty ==
  /\ main_pc = "sampler"
  /\ calls_left > 0
  /\ IsEmpty(heap[pcd])
  /\ pcd_before' = heap[pcd]
  /\ ret' = pcd
  /\ raised' = "none"
  /\ selection' = {}
  /\ calls_left' = calls_left - 1
  /\ UNCHANGED << heap, pcd, k, quantization, use_chromaticity, np_random,
                  colors_quant, shuffled_indices, sort_order,
                  final_original_indices >>
  /\ UNCHANGED batch_vars

\* lines 18-70
PrismSamplingFull ==
  /\ main_pc = "sampler"
  /\ calls_left > 0
  /\ ~ IsEmpty(heap[pcd])
  /\ \E b \in CastBuilds(quantization) :
     \E cq \in { Quantize(heap[pcd].colors, quantization, use_chromaticity, b) } :
     \E sh \in { Shuffle(Len(heap[pcd].points), np_random) } :
     \E so \in SortOrdersOf(cq, sh) :
     \E run \in { SamplingRun(heap[pcd], k, cq, sh, so) } :
     \E id \in { NewId(heap, pcd) } :
       /\ colors_quant' = run.colors_quant
       /\ shuffled_indices' = run.shuffled_indices
       /\ sort_order' = run.sort_order
       /\ final_original_indices' = run.final_original_indices
       /\ np_random' = run.state
       /\ heap' = [ i \in { pcd, id } |->
                      IF i = id THEN Gather(heap[pcd], run.final_original_indices)
                      ELSE heap[i] ]
       /\ ret' = id
       /\ selection' = Range(run.final_original_indices)
  /\ pcd_before' = heap[pcd]
  /\ raised' = "none"
  /\ calls_left' = calls_left - 1
  /\ UNCHANGED << pcd, k, quantization, use_chromaticity >>
  /\ UNCHANGED batch_vars

Init ==
  /\ \E c \in InputClouds : heap = [ i \in { 1 } |-> c ] /\ pcd_before = c
  /\ pcd = 1
  /\ k \in (0 - 1)..MaxK          \* argparse accepts any int
  /\ quantization \in QSteps
  /\ use_chromaticity \in BOOLEAN
  /\ np_random \in 1..MaxSeed
  /\ colors_quant = << >>
  /\ shuffled_indices = << >>
  /\ sort_order = << >>
  /\ final_original_indices = << >>
  /\ ret = NoCloud
  /\ raised = "none"
  /\ selection = {}
  /\ calls_left = 1
  /\ ply_files = << >>
  /\ file_pos = 0
  /\ written = << >>
  /\ log = << >>
  /\ main_pc = "sampler"

Next == PrismSamplingEmpty \/ PrismSamplingFull

Spec == Init /\ [][Next]_vars

\* a caller that samples the same cloud MaxCalls times with --k >= 1 and
\* the default step (lines 104-105)
InitRepeat ==
  /\ \E c \in InputClouds : heap = [ i \in { 1 } |-> c ] /\ pcd_before = c
  /\ pcd = 1
  /\ k \in 1..MaxK
  /\ quantization = << 1, 1 >>
  /\ use_chromaticity \in BOOLEAN
  /\ np_random \in 1..MaxSeed
  /\ colors_quant = << >>
  /\ shuffled_indices = << >>
  /\ sort_order = << >>
  /\ final_original_indices = << >>
  /\ ret = NoCloud
  /\ raised = "none"
  /\ selection = {}
  /\ calls_left = MaxCalls
  /\ ply_files = << >>
  /\ file_pos = 0
  /\ written = << >>
  /\ log = << >>
  /\ main_pc = "sampler"

SpecRepeat == InitRepeat /\ [][Next]_vars

\* ------------------------------------------------- main, directory mode
\* What the sweep finds in a .ply file: its colours (none: the cloud has
\* no colour data) and the step of process_file that raises on it, if any.
Faults == { "none", "load", "sample", "write" }

FileColorings == { << >>, << <<1, 0, 0>>, <<1, 0, 0>> >> }

PlyFiles == [ colors : FileColorings, fault : Faults ]

\* line 77: pcd.has_colors()
HasColors(f) == Len(f.colors) > 0

\* line 83: remove_statistical_outlier, an external filter; it keeps the
\* alignment of the attributes.  Here it removes nothing.
RemoveStatisticalOutlier(c) == c

\* does process_file raise on file f (lines 75, 86, 89)?  A cloud without
\* colours is skipped at line 79, before sampling and writing.
Raises(f) ==
  \/ f.fault = "load"
  \/ HasColors(f) /\ f.fault \in { "sample", "write" }

\* lines 77-79: no colour data, a warning and the next file
ProcessFileSkip ==
  /\ main_pc = "loop"
  /\ file_pos < Len(ply_files)
  /\ LET f == ply_files[file_pos + 1]
     IN  /\ ~ Raises(f)
         /\ ~ HasColors(f)
  /\ log' = Append(log, << "WARN", file_pos >>)
  /\ file_pos' = file_pos + 1
  /\ UNCHANGED << ply_files, written, main_pc >>
  /\ UNCHANGED sampler_vars

\* lines 75-96: the file is loaded, filtered, sampled and written
ProcessFileDone ==
  /\ main_pc = "loop"
  /\ file_pos < Len(ply_files)
  /\ LET f == ply_files[file_pos + 1]
         clean_pcd == RemoveStatisticalOutlier(CloudOf(f.colors, FALSE))
     IN  /\ ~ Raises(f)
         /\ HasColors(f)
         /\ \E b \in CastBuilds(quantization) :
            \E cq \in { Quantize(clean_pcd.colors, quantization, use_chromaticity, b) } :
            \E sh \in { Shuffle(Len(clean_pcd.points), np_random) } :
            \E so \in SortOrdersOf(cq, sh) :
            \E run \in { SamplingRun(clean_pcd, k, cq, sh, so) } :
              /\ colors_quant' = run.colors_quant
              /\ shuffled_indices' = run.shuffled_indices
              /\ sort_order' = run.sort_order
              /\ final_original_indices' = run.final_original_indices
              /\ selection' = Range(run.final_original_indices)
              /\ np_random' = run.state
              /\ pcd_before' = clean_pcd
              /\ written' = [ i \in DOMAIN written \cup { file_pos } |->
                                IF i = file_pos
                                  THEN Gather(clean_pcd, run.final_original_indices)
                                  ELSE written[i] ]
  /\ log' = Append(log, << "PRISM", file_pos >>)
  /\ file_pos' = file_pos + 1
  /\ UNCHANGED << ply_files, main_pc >>
  /\ UNCHANGED << heap, pcd, k, quantization, use_chromaticity, ret, raised,
                  calls_left >>

\* lines 122-130: nothing catches an exception of process_file, so it
\* leaves the for loop and main
ProcessFileRaise ==
  /\ main_pc = "loop"
  /\ file_pos < Len(ply_files)
  /\ Raises(ply_files[file_pos + 1])
  /\ raised' = ply_files[file_pos + 1].fault
  /\ main_pc' = "aborted"
  /\ UNCHANGED << ply_files, file_pos, written, log >>
  /\ UNCHANGED << heap, pcd, k, quantization, use_chromaticity, np_random,
                  colors_quant, shuffled_indices, sort_order,
                  final_original_indices, ret, pcd_before, selection,
                  calls_left >>

\* line 122: the for loop is exhausted
MainReturn ==
  /\ main_pc = "loop"
  /\ file_pos = Len(ply_files)
  /\ main_pc' = "done"
  /\ UNCHANGED << ply_files, file_pos, written, log >>
  /\ UNCHANGED sampler_vars

InitBatch ==
  /\ ply_files \in UNION { [1..n -> PlyFiles] : n \in 0..MaxFiles }
  /\ file_pos = 0
  /\ written = << >>
  /\ log = << >>
  /\ main_pc = "loop"
  /\ heap = << >>
  /\ pcd = NoCloud
  /\ pcd_before = CloudOf(<< >>, FALSE)
  /\ k \in 1..MaxK
  /\ quantization = << 1, 1 >>
  /\ use_chromaticity = TRUE
  /\ np_random \in 1..MaxSeed
  /\ colors_quant = << >>
  /\ shuffled_indices = << >>
  /\ sort_order = << >>
  /\ final_original_indices = << >>
  /\ ret = NoCloud
  /\ raised = "none"
  /\ selection = {}
  /\ calls_left = 0

NextBatch == ProcessFileSkip \/ ProcessFileDone \/ ProcessFileRaise \/ MainReturn

SpecBatch == InitBatch /\ [][NextBatch]_vars

\* ===================================================== the properties
\* a call of prism_sampling has ended, by a return or by an exception
CallEnded == ret # NoCloud \/ raised # "none"

\* number of points of the cloud the last call was given
InputN == Len(pcd_before.points)

\* the last call ran lines 18-70 on a non-empty cloud
FullRun == main_pc = "sampler" /\ ret # NoCloud /\ InputN >= 1

\* input indices whose quantized colour is that of input index i
BinOf(i) == { j \in 0..(InputN - 1) : colors_quant[j + 1] = colors_quant[i + 1] }

\* output positions filled from the bin of input index i
OutputOfBin(i) ==
  { j \in 1..Len(final_original_indices) : final_original_indices[j] \in BinOf(i) }

\* position (0-based) of input index i in the index array a
PosIn(a, i) == CHOOSE p \in 0..(Len(a) - 1) : a[p + 1] = i

RECURSIVE SumOver(_, _)
SumOver(S, kk) ==
  IF S = {} THEN 0
  ELSE LET b == CHOOSE x \in S : TRUE
       IN  Min(Cardinality(b), kk) + SumOver(S \ { b }, kk)

Bins == { BinOf(i) : i \in 0..(InputN - 1) }

\* C1: for k >= 1 and a step > 0, a bin with m >= 1 members in the input
\* fills exactly min(m, k) positions of the output.
C1_BinCap ==
  (FullRun /\ k >= 1 /\ quantization[1] > 0) =>
    \A i \in 0..(InputN - 1) :
      Cardinality(OutputOfBin(i)) = Min(Cardinality(BinOf(i)), k)

\* a run with k = 1 over a bin of two points (capped) and a bin of one
C1_Witness ==
  /\ FullRun /\ k = 1 /\ quantization[1] > 0
  /\ \E i, j \in 0..(InputN - 1) :
       Cardinality(BinOf(i)) = 2 /\ Cardinality(BinOf(j)) = 1
  /\ Len(heap[ret].points) = 2

\* C2: every output position carries the position, colour and (when the
\* input has normals) normal of one input index; the output has normals
\* for all its points when the input has normals, and none otherwise.
C2_SharedIndex ==
  ret # NoCloud /\ main_pc = "sampler" =>
    LET out == heap[ret]
        in  == pcd_before
    IN  /\ Len(out.colors) = Len(out.points)
        /\ Len(out.normals) = (IF HasNormals(in) THEN Len(out.points) ELSE 0)
        /\ \A j \in 1..Len(out.points) :
             \E i \in 1..Len(in.points) :
               /\ out.points[j] = in.points[i]
               /\ out.colors[j] = in.colors[i]
               /\ HasNormals(in) => out.normals[j] = in.normals[i]

\* a cloud with normals reduced to fewer points, the first of which is not
\* the first input point
C2_Witness ==
  /\ FullRun /\ HasNormals(pcd_before)
  /\ Len(heap[ret].points) >= 1 /\ Len(heap[ret].points) < InputN
  /\ final_original_indices[1] # 0
  /\ heap[ret].normals[1] = pcd_before.normals[final_original_indices[1] + 1]

\* C3: a call with k < 1 on a non-empty cloud (here with a valid step)
\* ends with a configuration error and returns no cloud.
C3_BadKIsAnError ==
  (main_pc = "sampler" /\ CallEnded /\ k < 1 /\ InputN >= 1
     /\ quantization[1] > 0) =>
    (raised # "none" /\ ret = NoCloud)

\* C4: a call with a quantization step <= 0 (here on a non-empty cloud
\* and with a valid k) ends with a configuration error and returns no cloud.
C4_BadStepIsAnError ==
  (main_pc = "sampler" /\ CallEnded /\ quantization[1] <= 0 /\ InputN >= 1
     /\ k >= 1) =>
    (raised # "none" /\ ret = NoCloud)

\* C5: a call that follows an earlier call with the same cloud, k, step and
\* chromaticity flag selects the same set of input indices.  The caller
\* passes no generator, so the arguments are all the call may depend on.
\* (argsort is a function of its argument: when both calls sort the same
\* key array they get the same sort_order.)
C5_SameArgumentsSameSelection ==
  [][ ( /\ ret # NoCloud
        /\ calls_left' = calls_left - 1
        /\ (Take(colors_quant', shuffled_indices') = Take(colors_quant, shuffled_indices)
              => sort_order' = sort_order) )
      => selection' = selection ]_vars

\* C6: when the sweep has ended, every file on which process_file does not
\* fail has been handled (sampled and written, or skipped with a warning).
C6_FailureIsSkipped ==
  main_pc \in { "done", "aborted" } =>
    \A i \in 1..Len(ply_files) :
      ~ Raises(ply_files[i]) =>
        \E e \in 1..Len(log) : log[e][2] = i - 1

\* C7 as claimed: after any call the input is unchanged and the returned
\* cloud is another object than the input.
C7_NeverAliases ==
  (main_pc = "sampler" /\ ret # NoCloud) =>
    (heap[pcd] = pcd_before /\ ret # pcd)

\* C7 amended: after any call the input is unchanged; the returned cloud
\* is a new object when the input has points, and the input itself when
\* it has none.
C7_InputUnchanged ==
  (main_pc = "sampler" /\ ret # NoCloud) =>
    /\ heap[pcd] = pcd_before
    /\ InputN >= 1 => (ret # pcd /\ ret \in DOMAIN heap)
    /\ InputN = 0 => ret = pcd

\* a non-empty cloud reduced to a smaller new cloud
C7_Witness ==
  /\ FullRun /\ ret # pcd /\ k >= 1
  /\ Len(heap[ret].points) >= 1
  /\ Len(heap[ret].points) < InputN
  /\ heap[pcd] = pcd_before

\* C8: sampling a cloud with no points returns that cloud, unchanged, with
\* no error, whatever k, the step and the chromaticity flag are; no new
\* cloud is made and the shuffle, sort and gather leave no result.
C8_EmptyReturned ==
  (main_pc = "sampler" /\ CallEnded /\ InputN = 0) =>
    /\ ret = pcd
    /\ raised = "none"
    /\ heap[pcd] = pcd_before
    /\ DOMAIN heap = { pcd }
    /\ shuffled_indices = << >> /\ sort_order = << >>
    /\ final_original_indices = << >>

\* an empty cloud sampled with k < 1 and a zero step
C8_Witness ==
  /\ main_pc = "sampler" /\ CallEnded /\ InputN = 0
  /\ k < 1 /\ quantization[1] = 0
  /\ ret = pcd

\* the members of the bin of i that come first in the index order a
FirstOfBin(a, i, n) ==
  { m \in BinOf(i) :
      Cardinality({ o \in BinOf(i) : PosIn(a, o) < PosIn(a, m) }) < n }

\* C9 as claimed (for a valid k and step): the members kept of a bin are
\* its first min(k, size) members in the order of shuffled_indices.
C9_FirstInShuffledOrder ==
  (FullRun /\ k >= 1 /\ quantization[1] > 0) =>
    \A i \in 0..(InputN - 1) :
      selection \cap BinOf(i) = FirstOfBin(shuffled_indices, i, k)

\* C9 amended: the members kept of a bin are its first min(k, size) members
\* in the order of the sorted sequence shuffled_indices[sort_order]; argsort
\* may put equal keys in another order than the shuffled one.
C9_FirstInSortedOrder ==
  (FullRun /\ k >= 1) =>
    \A i \in 0..(InputN - 1) :
      selection \cap BinOf(i) = FirstOfBin(Take(shuffled_indices, sort_order), i, k)

\* a bin of two or more members capped to fewer, of which the kept one is
\* not the bin's first member in the shuffled order
C9_Witness ==
  /\ FullRun /\ k >= 1 /\ quantization[1] > 0
  /\ \E i \in 0..(InputN - 1) :
       /\ Cardinality(BinOf(i)) > k
       /\ selection \cap BinOf(i) # FirstOfBin(shuffled_indices, i, k)
       /\ Cardinality(selection \cap BinOf(i)) = k

\* C10: for k >= 1 the selected indices are pairwise distinct indices of
\* the input; the output has sum over bins of min(bin size, k) points,
\* at most N and at most (number of bins) * k.
C10_DistinctIndices ==
  (FullRun /\ k >= 1) =>
    LET f == final_original_indices
    IN  /\ \A a, b \in 1..Len(f) : a # b => f[a] # f[b]
        /\ \A a \in 1..Len(f) : f[a] \in 0..(InputN - 1)
        /\ Len(heap[ret].points) = Len(f)
        /\ Len(f) = SumOver(Bins, k)
        /\ Len(f) <= InputN
        /\ Len(f) <= Cardinality(Bins) * k

\* three points in two bins sampled with k = 1: two points are kept
C10_Witness ==
  /\ FullRun /\ k = 1 /\ InputN = 3
  /\ Cardinality(Bins) = 2
  /\ Len(final_original_indices) = 2
  /\ final_original_indices[1] # final_original_indices[2]

====
